---- MODULE Spec2Model ----
(***************************************************************************)
(* A model of the JITK backend (src/backend/app): the block grouper and    *)
(* the ingestion pipeline of ingest.py, the store of models.py, the        *)
(* retriever of retrieval.py and the answer synthesizer of main.py.        *)
(*                                                                         *)
(* Text.  A Python str is modelled as a sequence of atoms.  An atom is a   *)
(* run of visible text whose words are separated by single blanks ("run"), *)
(* one blank ("sp"), a longer stretch of blanks or tabs ("ws"), or a line  *)
(* break ("nl").  Every atom carries its length in characters, so that     *)
(* len(), slicing, strip(), split() and re.split() are computed on the     *)
(* atoms as Python computes them on the characters.                        *)
(*                                                                         *)
(* Coordinates.  PyMuPDF coordinates are floats; the model keeps them as   *)
(* integers counted in 1/Unit of a point, so int() is a real truncation.   *)
(***************************************************************************)
EXTENDS Integers, Sequences, FiniteSets, TLC

\* ------------------------------------------------------------------ bounds
\* Sub-point resolution of the coordinates: a coordinate v stands for v/Unit pt.
Unit == 2
\* Largest number of raw text blocks on one page given to group_blocks.
MaxBlocks == 3
\* Largest number of ingest_pdf runs started in one behaviour.
MaxRuns == 3
\* Largest number of Chunk rows in the store the retriever searches.
MaxStored == 3
\* Largest number of (line, bullet) pairs given to _cluster_semantic.
MaxPairs == 3

\* --------------------------------------------------------------- text atoms
\* A run of visible characters.  n: characters kept (a slice may cut a run),
\* full: characters of the whole run, letters: its A-Z/a-z characters,
\* upper: it has no lower-case letter, marker: it begins with one of the
\* structural markers of ingest.py:39, boiler: it matches one of the
\* _BOILERPLATE_PATTERNS of main.py:149-156.
Run(id, n, letters, upper, marker, boiler) ==
    [k |-> "run", id |-> id, n |-> n, full |-> n, letters |-> letters,
     upper |-> upper, marker |-> marker, boiler |-> boiler]

\* Whitespace atoms: one blank, a stretch of n blanks/tabs, one line break.
SP == [k |-> "sp", id |-> " ", n |-> 1, full |-> 1, letters |-> 0,
       upper |-> TRUE, marker |-> FALSE, boiler |-> FALSE]

WS(n) == [k |-> "ws", id |-> " ", n |-> n, full |-> n, letters |-> 0,
          upper |-> TRUE, marker |-> FALSE, boiler |-> FALSE]

NL == [k |-> "nl", id |-> "\n", n |-> 1, full |-> 1, letters |-> 0,
       upper |-> TRUE, marker |-> FALSE, boiler |-> FALSE]

IsSpace(a) == a.k \in {"sp", "ws", "nl"}

\* len(s)
RECURSIVE StrLen(_)
StrLen(s) == IF s = <<>> THEN 0 ELSE Head(s).n + StrLen(Tail(s))

\* s.lstrip(), s.rstrip(), s.strip()
RECURSIVE LStrip(_)
LStrip(s) == IF s # <<>> /\ IsSpace(Head(s)) THEN LStrip(Tail(s)) ELSE s

RECURSIVE RStrip(_)
RStrip(s) ==
    IF s # <<>> /\ IsSpace(s[Len(s)]) THEN RStrip(SubSeq(s, 1, Len(s) - 1)) ELSE s

Strip(s) == RStrip(LStrip(s))

\* s[:n]: the first n characters; the atom the cut falls in is shortened.
RECURSIVE Slice(_, _)
Slice(s, n) ==
    IF s = <<>> \/ n <= 0 THEN <<>>
    ELSE IF Head(s).n <= n THEN <<Head(s)>> \o Slice(Tail(s), n - Head(s).n)
         ELSE <<[Head(s) EXCEPT !.n = n,
                                !.letters = IF Head(s).letters <= n THEN @ ELSE n]>>

\* " ".join(s.split()): leading and trailing whitespace dropped, every other
\* stretch of whitespace (line breaks too) replaced by one blank.
RECURSIVE JoinWords(_)
JoinWords(s) ==
    IF s = <<>> THEN <<>>
    ELSE IF IsSpace(Head(s))
         THEN LET rest == LStrip(s) IN IF rest = <<>> THEN <<>> ELSE <<SP>> \o JoinWords(rest)
         ELSE <<Head(s)>> \o JoinWords(Tail(s))

Collapse(s) == JoinWords(Strip(s))

\* re.split(r"[\n\r]+", s): the pieces between the stretches of line breaks.
RECURSIVE SplitBreaks(_, _)
SplitBreaks(s, piece) ==
    IF s = <<>> THEN <<piece>>
    ELSE IF Head(s).k = "nl"
         THEN IF Len(s) > 1 /\ s[2].k = "nl" THEN SplitBreaks(Tail(s), piece)
              ELSE <<piece>> \o SplitBreaks(Tail(s), <<>>)
         ELSE SplitBreaks(Tail(s), Append(piece, Head(s)))

\* s.lower(): a run is written either all in upper case or with no upper-case
\* letter; the first becomes another string, the second is left as it is.
Lower(s) ==
    [j \in 1..Len(s) |->
        IF s[j].k = "run" /\ s[j].letters > 0 /\ s[j].upper
        THEN [s[j] EXCEPT !.id = ToString(<<"lower", s[j].id>>), !.upper = FALSE]
        ELSE s[j]]

\* A literal of n characters that a format string puts into a text.
Lit(str, n) ==
    [k |-> "lit", id |-> ToString(str), n |-> n, full |-> n, letters |-> 0,
     upper |-> TRUE, marker |-> FALSE, boiler |-> FALSE]

\* re.sub(r"[^A-Za-z]+", "", s): only the number of letters left is kept.
RECURSIVE Letters(_)
Letters(s) == IF s = <<>> THEN 0 ELSE Head(s).letters + Letters(Tail(s))

\* str.isupper(): at least one cased character and no lower-case one.
IsUpper(s) == Letters(s) > 0 /\ \A i \in 1..Len(s) : s[i].upper

\* --------------------------------------------------------- group_blocks
\* ingest.py:10 (y_gap: float = 18.0), in points.
y_gap == 18
\* ingest.py:37: a header has at least this many letters ...
HeaderMinLetters == 10
\* ... and a stripped length of at most this many characters.
HeaderMaxLen == 120

\* ingest.py:36-37 and 45-46
is_header(txt) ==
    LET stripped == Strip(txt)
    IN  /\ Letters(stripped) >= HeaderMinLetters
        /\ IsUpper(stripped)
        /\ StrLen(stripped) <= HeaderMaxLen

\* ingest.py:39
starts_section(txt) ==
    LET stripped == Strip(txt) IN stripped # <<>> /\ Head(stripped).marker

\* ingest.py:12-18: keep only the non-empty text blocks, text stripped.
RECURSIVE KeepNonEmpty(_)
KeepNonEmpty(bl) ==
    IF bl = <<>> THEN <<>>
    ELSE LET it == Head(bl)
             txt == Strip(it.text)
         IN  IF txt = <<>> THEN KeepNonEmpty(Tail(bl))
             ELSE <<[it EXCEPT !.text = txt]>> \o KeepNonEmpty(Tail(bl))

\* The sort key of ingest.py:21, (t[1], t[0]), compared as Python compares tuples.
KeyLess(a, b) == a.y0 < b.y0 \/ (a.y0 = b.y0 /\ a.x0 < b.x0)

\* list.sort is stable: an item goes after every item whose key is not larger.
RECURSIVE InsertSorted(_, _)
InsertSorted(s, it) ==
    IF s = <<>> THEN <<it>>
    ELSE IF KeyLess(it, Head(s)) THEN <<it>> \o s
         ELSE <<Head(s)>> \o InsertSorted(Tail(s), it)

RECURSIVE SortBlocks(_)
SortBlocks(b) ==
    IF b = <<>> THEN <<>>
    ELSE InsertSorted(SortBlocks(SubSeq(b, 1, Len(b) - 1)), b[Len(b)])

Min(a, b) == IF a <= b THEN a ELSE b
Max(a, b) == IF a >= b THEN a ELSE b

\* cur = [x0, y0, x1, y1, txt] (ingest.py:28, 43, 50).  members lists the
\* positions in the sorted list b of the fragments whose text the group holds;
\* it is not a field of the code's tuple and nothing in the model reads it
\* but the properties.
NewGroup(f, i) ==
    [x0 |-> f.x0, y0 |-> f.y0, x1 |-> f.x1, y1 |-> f.y1, text |-> f.text,
     members |-> <<i>>]

\* ingest.py:55-59
MergeGroup(cur, f, i) ==
    [x0 |-> Min(cur.x0, f.x0), y0 |-> Min(cur.y0, f.y0),
     x1 |-> Max(cur.x1, f.x1), y1 |-> Max(cur.y1, f.y1),
     text |-> cur.text \o <<NL>> \o f.text,
     members |-> Append(cur.members, i)]

\* ClosesGroup with the gap compared by >= (an off-by-one on the threshold).
ClosesGroup_GapInclusive(cur, f) ==
    f.y0 - cur.y1 >= y_gap * Unit \/ is_header(f.text) \/ starts_section(f.text)

\* ingest.py:41: the fragment closes the open group.
ClosesGroup(cur, f) ==
    f.y0 - cur.y1 > y_gap * Unit \/ is_header(f.text) \/ starts_section(f.text)

\* One pass of the loop body, ingest.py:26-59.  st.cur is <<>> for None.
GroupStep(st, f, i) ==
    IF st.cur = <<>> THEN [groups |-> st.groups, cur |-> <<NewGroup(f, i)>>]
    ELSE IF ClosesGroup(st.cur[1], f)
         THEN IF is_header(f.text)
              THEN [groups |-> st.groups \o st.cur \o <<NewGroup(f, i)>>,
                    cur |-> <<NewGroup(f, i)>>]
              ELSE [groups |-> st.groups \o st.cur, cur |-> <<NewGroup(f, i)>>]
         ELSE [groups |-> st.groups, cur |-> <<MergeGroup(st.cur[1], f, i)>>]

RECURSIVE GroupLoop(_, _, _)
GroupLoop(b, i, st) ==
    IF i > Len(b) THEN st ELSE GroupLoop(b, i + 1, GroupStep(st, b[i], i))

\* ingest.py:10-64
group_blocks(bl) ==
    LET b == SortBlocks(KeepNonEmpty(bl))
        st == GroupLoop(b, 1, [groups |-> <<>>, cur |-> <<>>])
    IN  st.groups \o st.cur

\* ------------------------------------------------------- page fragments
\* Texts a raw block may carry.
TxtBody == <<Run("body", 90, 75, FALSE, FALSE, FALSE)>>
TxtHead == <<Run("HEADING", 12, 12, TRUE, FALSE, FALSE)>>
TxtSect == <<Run("S1", 40, 32, FALSE, TRUE, FALSE)>>
TxtCaps == <<Run("CAPS", 9, 9, TRUE, FALSE, FALSE)>>
TxtBlank == <<WS(2), NL>>

BlockTexts == {TxtBody, TxtHead, TxtSect, TxtCaps, TxtBlank}

\* Top edges (0 pt, 10 pt and a fraction, 26 pt, 40 pt), left edge, width.
TopEdges == {0, 10 * Unit + 1, 26 * Unit, 40 * Unit}
LeftEdge == 72 * Unit
Width == 400 * Unit

\* A block as page.get_text("blocks") gives it: (x0, y0, x1, y1, text, ...).
Block(y0, h, t) ==
    [x0 |-> LeftEdge, y0 |-> y0, x1 |-> LeftEdge + Width, y1 |-> y0 + h, text |-> t]

\* Blocks of one line of any text at any top edge, and tall blocks of body
\* text (a side column) at the two upper ones.
Blocks ==
    {Block(y0, 8 * Unit, t) : y0 \in TopEdges, t \in BlockTexts}
        \cup {Block(y0, 60 * Unit, TxtBody) : y0 \in {0, 10 * Unit + 1}}

\* ------------------------------------------------------------ the files
\* The PDF files on disk: path -> bytes.  Two paths hold the same bytes.
Paths == {"docs/policy.pdf", "copy/policy.pdf", "docs/policy_v2.pdf", "docs/scan.pdf"}

FileBytes(path) ==
    CASE path = "docs/policy.pdf" -> "bytesA"
      [] path = "copy/policy.pdf" -> "bytesA"
      [] path = "docs/policy_v2.pdf" -> "bytesB"
      [] path = "docs/scan.pdf" -> "bytesScan"

\* What fitz reads from the bytes: per page, page.get_text("blocks").
\* bytesA: a heading and a body line on page 1, no text on page 2, a body
\*         line on page 3.
\* bytesB: one page with a section line.
\* bytesScan: a scanned document, no text on either page.
PdfPages(bytes) ==
    CASE bytes = "bytesA" ->
            << <<Block(0, 8 * Unit, TxtHead), Block(10 * Unit + 1, 8 * Unit, TxtBody)>>,
               <<Block(0, 8 * Unit, TxtBlank)>>,
               <<Block(0, 8 * Unit, TxtBody)>> >>
      [] bytes = "bytesB" ->
            << <<Block(0, 8 * Unit, TxtSect)>> >>
      [] bytes = "bytesScan" ->
            << <<>>, <<Block(0, 60 * Unit, TxtBlank)>> >>

\* The command lines given to python -m app.ingest <pdf_path> <doc_name>:
\* every file under the name "policy", and the first file under "claims" too.
IngestArgs ==
    {<<pdf_path, "policy">> : pdf_path \in Paths} \cup {<<"docs/policy.pdf", "claims">>}

\* The ingest_pdf runs that may be in flight together.
Procs == {1, 2}

VARIABLES
    page,      \* the blocks of the page given to group_blocks
    groups,    \* what group_blocks returned for it
    grouped,   \* whether group_blocks has run
    documents, \* the committed rows of table documents (models.py:6-21)
    chunks,    \* the committed rows of table chunks (models.py:23-47)
    run,       \* run[p]: the locals and the position of ingest_pdf run p
    started,   \* ingest_pdf runs started so far
    encoder,   \* the sentence-transformer model: text -> normalized embedding
    retrieval, \* the last call of search_chunks: its arguments and its result
    dedup,     \* _cluster_semantic applied to a list, and again to its result
    resp       \* the last request to the API: its arguments, locals and response

vars ==
    <<page, groups, grouped, documents, chunks, run, started, encoder, retrieval, dedup,
      resp>>

groupVars == <<page, groups, grouped>>
ingestVars == <<documents, chunks, run, started>>
apiVars == <<retrieval, dedup, resp>>

\* No call of search_chunks yet.
NoRetrieval == [called |-> FALSE, query_embedding |-> <<>>, top_k |-> 0, hits |-> <<>>]

\* No request to the API yet.
NoRequest == [op |-> "none"]

\* No call of _cluster_semantic yet.
NoDedup == [stage |-> 0, pairs |-> <<>>, reps |-> <<>>, again |-> <<>>]

\* --------------------------------------------------------- embeddings
\* Normalized embeddings, all of one length (25 stands for 1.0), so that
\* the cosine of two of them is their dot product over 625.
Vecs == {<<25, 0>>, <<24, 7>>, <<20, 15>>, <<15, 20>>, <<7, 24>>, <<0, 25>>, <<-25, 0>>}

Dot(u, v) == u[1] * v[1] + u[2] * v[2]

\* model.encode(texts, normalize_embeddings=True) (ingest.py:71-78,
\* main.py:202, 262, 291): one vector per text, the same for the same text.
encode(texts) == [j \in 1..Len(texts) |-> encoder[texts[j]]]

\* The locals of a run that has not started.
IdleRun ==
    [pc |-> "idle", db |-> "none", pdf_path |-> "", doc_name |-> "", pdf_bytes |-> "",
     version_hash |-> <<>>, doc_id |-> 0, chunk_rows |-> <<>>, pending |-> <<>>,
     i |-> 0, inserted |-> 0, error |-> ""]

\* ------------------------------------------------- block grouper alone
InitGroup ==
    /\ \E n \in 0..MaxBlocks : page \in [1..n -> Blocks]
    /\ groups = <<>>
    /\ grouped = FALSE
    /\ documents = {}
    /\ chunks = {}
    /\ run = [p \in Procs |-> IdleRun]
    /\ started = 0
    /\ encoder = <<>>
    /\ retrieval = NoRetrieval
    /\ dedup = NoDedup
    /\ resp = NoRequest

GroupPage ==
    /\ ~grouped
    /\ groups' = group_blocks(page)
    /\ grouped' = TRUE
    /\ UNCHANGED <<page, ingestVars, encoder, apiVars>>

NextGroup == GroupPage

SpecGroup == InitGroup /\ [][NextGroup]_vars

\* The list b of ingest.py:21 for the page: its non-empty fragments, sorted.
SortedPage == SortBlocks(KeepNonEmpty(page))

InGroup(g, i) == \E m \in 1..Len(g.members) : g.members[m] = i

\* The groups of the output that hold fragment i of the sorted list.
GroupsOf(i) == {g \in 1..Len(groups) : InGroup(groups[g], i)}

SameGroup(i, j) == \E g \in 1..Len(groups) : InGroup(groups[g], i) /\ InGroup(groups[g], j)

\* C5: group_blocks emits each group exactly once: every non-empty fragment is
\* held by exactly one output group (so no group, a header group in
\* particular, is emitted twice or repeated as the start of a later group).
C5_EachFragmentInOneGroup ==
    grouped => \A i \in 1..Len(SortedPage) : Cardinality(GroupsOf(i)) = 1

\* C6: a header fragment ends up as a group holding only that header, wherever
\* it stands on the page, so the body text on the next fragment is in a further
\* group; a page of one heading and one body line gives at least 2 groups.
C6_HeaderIsAGroupOfItsOwn ==
    grouped =>
        /\ \A i \in 1..Len(SortedPage) :
              is_header(SortedPage[i].text) =>
                  \A g \in GroupsOf(i) : groups[g].members = <<i>>
        /\ (/\ Len(SortedPage) = 2
            /\ is_header(SortedPage[1].text)
            /\ ~is_header(SortedPage[2].text)) => Len(groups) >= 2

Plain(i) == ~is_header(SortedPage[i].text) /\ ~starts_section(SortedPage[i].text)

\* Top of fragment i + 1 minus bottom of fragment i.
FragGap(i) == SortedPage[i + 1].y0 - SortedPage[i].y1

\* C7 as stated: two fragments adjacent in (top, left) order are in different
\* groups if the gap between them exceeds 18, and in the same group if it does
\* not and neither is a header or a section start.
C7_GapBetweenFragments ==
    grouped =>
        \A i \in 1..(Len(SortedPage) - 1) :
            /\ FragGap(i) > y_gap * Unit => ~SameGroup(i, i + 1)
            /\ (FragGap(i) <= y_gap * Unit /\ Plain(i) /\ Plain(i + 1)) => SameGroup(i, i + 1)

RECURSIVE MaxBottom(_, _)
MaxBottom(mem, i) ==
    IF mem = <<>> THEN SortedPage[i].y1
    ELSE LET rest == MaxBottom(Tail(mem), i)
         IN  IF Head(mem) <= i THEN Max(SortedPage[Head(mem)].y1, rest) ELSE rest

\* C7 amended: the gap of the first half is measured from the bottom edge of
\* the group built so far around the earlier fragment (the lowest bottom edge
\* of the fragments merged into it up to that one), not from the earlier
\* fragment's own bottom; the second half is as stated.
C7_GapBelowOpenGroup ==
    grouped =>
        \A i \in 1..(Len(SortedPage) - 1) :
            /\ \A g \in GroupsOf(i) :
                  SortedPage[i + 1].y0 - MaxBottom(groups[g].members, i) > y_gap * Unit
                      => ~InGroup(groups[g], i + 1)
            /\ (FragGap(i) <= y_gap * Unit /\ Plain(i) /\ Plain(i + 1)) => SameGroup(i, i + 1)

\* A page where the two gaps differ: a tall fragment keeps the group open, and
\* the two fragments that follow it, more than 18 apart, are merged into it.
C7_Witness ==
    /\ grouped
    /\ \E i \in 1..(Len(SortedPage) - 1) :
          /\ FragGap(i) > y_gap * Unit
          /\ Plain(i) /\ Plain(i + 1)
          /\ SameGroup(i, i + 1)

\* ------------------------------------------------------------ ingest_pdf
\* ingest.py:67-68.  SHA-256 is taken to be free of collisions: the digest
\* is the bytes under a tag.
sha256_bytes(data) == <<"sha256", data>>

\* version_hash computed from the path instead of the bytes read from it.
VersionHash_OfPath(pdf_path) == sha256_bytes(pdf_path)

\* ingest.py:91-94
VersionHash(pdf_path) == sha256_bytes(FileBytes(pdf_path))

\* int() of a float: truncation towards zero.
ToInt(v) == IF v >= 0 THEN v \div Unit ELSE -((-v) \div Unit)

\* ingest.py:144, f"p{page_number:03d}-g{g_idx:03d}": one string per pair.
ParaId(page_number, g_idx) == <<"p", page_number, "g", g_idx>>

\* ingest.py:139-158 for one page: a row per group with a non-empty text.
RECURSIVE RowsOfGroups(_, _, _, _)
RowsOfGroups(gs, g_idx, page_number, doc_id) ==
    IF g_idx >= Len(gs) THEN <<>>
    ELSE LET g == gs[g_idx + 1]
             text == Strip(g.text)
             rest == RowsOfGroups(gs, g_idx + 1, page_number, doc_id)
         IN  IF text = <<>> THEN rest
             ELSE <<[document_id |-> doc_id, page_number |-> page_number,
                     para_id |-> ParaId(page_number, g_idx),
                     x1 |-> ToInt(g.x0), y1 |-> ToInt(g.y0),
                     x2 |-> ToInt(g.x1), y2 |-> ToInt(g.y1), text |-> text]>> \o rest

\* ingest.py:126-158: the rows of all pages, page_number being page_idx + 1.
RECURSIVE RowsOfPages(_, _, _)
RowsOfPages(pages, page_idx, doc_id) ==
    IF page_idx >= Len(pages) THEN <<>>
    ELSE RowsOfGroups(group_blocks(pages[page_idx + 1]), 0, page_idx + 1, doc_id)
             \o RowsOfPages(pages, page_idx + 1, doc_id)

\* The message of ingest.py:161-164.
NoTextMessage ==
    "No text blocks found. This PDF may be scanned (image-only). If so, we need OCR."

\* The next value of a table's id sequence.
NextId(rows) == IF rows = {} THEN 1 ELSE 1 + CHOOSE m \in {r.id : r \in rows} :
                                               \A r \in rows : r.id <= m

\* ingest.py:99-103: .filter(name == doc_name, version_hash == version_hash)
FindDocument(doc_name, version_hash) ==
    {d \in documents : d.name = doc_name /\ d.version_hash = version_hash}

\* Table documents without its unique constraint: any row is accepted.
DocumentKeyFree_Unconstrained(doc_name, version_hash) == TRUE

\* models.py:19-21, uq_doc_name_version: the store accepts the INSERT.
DocumentKeyFree(doc_name, version_hash) ==
    ~\E d \in documents : d.name = doc_name /\ d.version_hash = version_hash

\* ingest.py:170-178: .filter(document_id, page_number, para_id).first()
FindChunk(row) ==
    {c \in chunks : /\ c.document_id = row.document_id
                    /\ c.page_number = row.page_number
                    /\ c.para_id = row.para_id}

ChunkKey(r) == <<r.document_id, r.page_number, r.para_id>>

\* models.py:45-47, uq_doc_page_para: the store accepts the batch of INSERTs.
ChunkKeysFree(rows) ==
    /\ \A j \in 1..Len(rows) : ~\E c \in chunks : ChunkKey(c) = ChunkKey(rows[j])
    /\ \A j, l \in 1..Len(rows) : ChunkKey(rows[j]) = ChunkKey(rows[l]) => j = l

\* The rows of a flushed batch with the ids the sequence gives them.
StoredRows(rows) ==
    {[id |-> NextId(chunks) + j - 1] @@ rows[j] : j \in 1..Len(rows)}

\* ingest.py:89-96: load the model, read the file, hash it, open a session.
IngestStart(p, pdf_path, doc_name) ==
    /\ run[p].pc \in {"idle", "done", "failed_doc", "failed_text", "failed_chunks"}
    /\ started < MaxRuns
    /\ started' = started + 1
    /\ run' = [run EXCEPT ![p] =
                 [IdleRun EXCEPT !.pc = "lookup", !.db = "open",
                                 !.pdf_path = pdf_path, !.doc_name = doc_name,
                                 !.pdf_bytes = FileBytes(pdf_path),
                                 !.version_hash = VersionHash(pdf_path)]]
    /\ UNCHANGED <<documents, chunks, groupVars, encoder, apiVars>>

\* ingest.py:99-117: the SELECT and the branch taken on its result.
IngestLookupDoc(p) ==
    /\ run[p].pc = "lookup"
    /\ LET found == FindDocument(run[p].doc_name, run[p].version_hash)
       IN  IF found = {}
           THEN run' = [run EXCEPT ![p].pc = "insert_doc"]
           ELSE LET doc == CHOOSE d \in found : \A e \in found : d.id <= e.id
                IN  run' = [run EXCEPT ![p].doc_id = doc.id,
                                       ![p].pc = IF doc.file_path # run[p].pdf_path
                                                 THEN "sync_path" ELSE "extract"]
    /\ UNCHANGED <<documents, chunks, started, groupVars, encoder, apiVars>>

\* ingest.py:105-112: db.add(doc); db.commit(); db.refresh(doc).  A commit the
\* store rejects raises IntegrityError, and the finally clause closes the session.
IngestInsertDoc(p) ==
    /\ run[p].pc = "insert_doc"
    /\ IF DocumentKeyFree(run[p].doc_name, run[p].version_hash)
       THEN /\ documents' = documents \cup
                  {[id |-> NextId(documents), name |-> run[p].doc_name,
                    version_hash |-> run[p].version_hash,
                    file_path |-> run[p].pdf_path]}
            /\ run' = [run EXCEPT ![p].doc_id = NextId(documents), ![p].pc = "extract"]
       ELSE /\ documents' = documents
            /\ run' = [run EXCEPT ![p].pc = "failed_doc", ![p].db = "closed",
                                  ![p].error = "IntegrityError"]
    /\ UNCHANGED <<chunks, started, groupVars, encoder, apiVars>>

\* ingest.py:115-117: doc.file_path = pdf_path; db.commit()
IngestSyncPath(p) ==
    /\ run[p].pc = "sync_path"
    /\ documents' = {IF d.id = run[p].doc_id THEN [d EXCEPT !.file_path = run[p].pdf_path]
                     ELSE d : d \in documents}
    /\ run' = [run EXCEPT ![p].pc = "extract"]
    /\ UNCHANGED <<chunks, started, groupVars, encoder, apiVars>>

\* The test of ingest.py:160 left out: an empty document goes through.
NoTexts_Unchecked(texts) == FALSE

\* ingest.py:160: if not texts
NoTexts(texts) == texts = <<>>

\* ingest.py:119-166: group every page, collect the rows; no text at all
\* raises ValueError (and the finally clause closes the session).
IngestExtract(p) ==
    /\ run[p].pc = "extract"
    /\ LET rows == RowsOfPages(PdfPages(run[p].pdf_bytes), 0, run[p].doc_id)
           texts == [j \in 1..Len(rows) |-> rows[j].text]
           embeddings == encode(texts)
       IN  IF NoTexts(texts)
           THEN run' = [run EXCEPT ![p].pc = "failed_text", ![p].db = "closed",
                                   ![p].error = NoTextMessage]
           ELSE run' = [run EXCEPT
                          ![p].chunk_rows = [j \in 1..Len(rows) |->
                                                [embedding |-> embeddings[j]] @@ rows[j]],
                          ![p].i = 1,
                          ![p].pc = IF Len(rows) = 0 THEN "commit" ELSE "check"]
    /\ UNCHANGED <<documents, chunks, started, groupVars, encoder, apiVars>>

\* ingest.py:169-183, one pass of the loop: the SELECT for the row's key, then
\* db.add (no flush: the session is autoflush=False, db.py:7) unless it exists.
IngestCheckChunk(p) ==
    /\ run[p].pc = "check"
    /\ LET row == run[p].chunk_rows[run[p].i]
           last == run[p].i = Len(run[p].chunk_rows)
       IN  run' = [run EXCEPT
                     ![p].pending = IF FindChunk(row) # {} THEN @ ELSE Append(@, row),
                     ![p].inserted = IF FindChunk(row) # {} THEN @ ELSE @ + 1,
                     ![p].i = @ + 1,
                     ![p].pc = IF last THEN "commit" ELSE "check"]
    /\ UNCHANGED <<documents, chunks, started, groupVars, encoder, apiVars>>

\* ingest.py:185-194: db.commit() flushes the batch in one transaction; a row
\* the store rejects raises IntegrityError and nothing of the batch is kept.
IngestCommitChunks(p) ==
    /\ run[p].pc = "commit"
    /\ IF ChunkKeysFree(run[p].pending)
       THEN /\ chunks' = chunks \cup StoredRows(run[p].pending)
            /\ run' = [run EXCEPT ![p].pc = "done", ![p].db = "closed"]
       ELSE /\ chunks' = chunks
            /\ run' = [run EXCEPT ![p].pc = "failed_chunks", ![p].db = "closed",
                                  ![p].error = "IntegrityError"]
    /\ UNCHANGED <<documents, started, groupVars, encoder, apiVars>>

\* The texts ingest_pdf hands to the model for the files above.
IngestTexts == {TxtHead \o <<NL>> \o TxtBody, TxtBody, TxtSect}

InitIngest ==
    /\ page = <<>>
    /\ groups = <<>>
    /\ grouped = FALSE
    /\ documents = {}
    /\ chunks = {}
    /\ run = [p \in Procs |-> IdleRun]
    /\ started = 0
    /\ encoder = [t \in IngestTexts |-> IF Len(t) > 1 THEN <<24, 7>> ELSE <<15, 20>>]
    /\ retrieval = NoRetrieval
    /\ dedup = NoDedup
    /\ resp = NoRequest

NextIngest ==
    \E p \in Procs :
        \/ \E args \in IngestArgs : IngestStart(p, args[1], args[2])
        \/ IngestLookupDoc(p)
        \/ IngestInsertDoc(p)
        \/ IngestSyncPath(p)
        \/ IngestExtract(p)
        \/ IngestCheckChunk(p)
        \/ IngestCommitChunks(p)

SpecIngest == InitIngest /\ [][NextIngest]_vars

\* (name, version_hash) identifies at most one Document, and
\* (document_id, page_number, para_id) at most one Chunk.
UniqueKeys ==
    /\ \A d, e \in documents :
          (d.name = e.name /\ d.version_hash = e.version_hash) => d = e
    /\ \A c, e \in chunks : ChunkKey(c) = ChunkKey(e) => c = e

\* A Document was stored for these bytes under this name (file_path is kept
\* the path of a file holding the bytes the row was made from).
AlreadyIngested(doc_name, pdf_bytes) ==
    \E d \in documents : d.name = doc_name /\ FileBytes(d.file_path) = pdf_bytes

\* C1: a step of a run of ingest_pdf whose name and bytes are already stored
\* leaves the number of Document rows unchanged and adds no Chunk row under a
\* key that is already stored; and the keys stay unique in the store.
C1_ReingestAddsNothing ==
    [][/\ \A p \in Procs :
            (/\ run'[p] # run[p]
             /\ run'[p].pc # "lookup"
             /\ AlreadyIngested(run[p].doc_name, run[p].pdf_bytes))
            => /\ Cardinality(documents') = Cardinality(documents)
               /\ \A c \in chunks' \ chunks :
                     ~\E e \in chunks : ChunkKey(e) = ChunkKey(c)
       /\ UniqueKeys']_vars

\* A second run for the same name and bytes has finished, and found every
\* chunk stored: one Document, nothing inserted.
C1_Witness ==
    \E p \in Procs :
        /\ run[p].pc = "done"
        /\ run[p].inserted = 0
        /\ started >= 2
        /\ Cardinality({d \in documents : d.name = run[p].doc_name}) = 1
        /\ chunks # {}

C3_NoDocumentWithoutChunks ==
    \A d \in documents : \E c \in chunks : c.document_id = d.id

\* A run has ended on the no-text error and the Document row it committed is
\* in the store with no chunk.
C3_FailedRunLeftDocument ==
    \E p \in Procs :
        /\ run[p].pc = "failed_text"
        /\ \E d \in documents : d.id = run[p].doc_id /\ d.file_path = run[p].pdf_path
        /\ ~\E c \in chunks : c.document_id = run[p].doc_id

\* Some page of the document yields a group with a non-empty text.
HasText(pdf_bytes) ==
    \E pg \in 1..Len(PdfPages(pdf_bytes)) :
        LET gs == group_blocks(PdfPages(pdf_bytes)[pg])
        IN  \E g \in 1..Len(gs) : Strip(gs[g].text) # <<>>

\* C4: a run fails with the no-text error (its message names a scanned,
\* image-only PDF and OCR) exactly when no page yields a group with text;
\* that run inserts no chunk; a run goes past the test whenever some page
\* has text.
C4_NoTextErrorIffNoText ==
    \A p \in Procs :
        /\ run[p].pc = "failed_text" =>
              /\ ~HasText(run[p].pdf_bytes)
              /\ run[p].error = NoTextMessage
              /\ run[p].pending = <<>> /\ run[p].inserted = 0
              /\ ~\E c \in chunks : c.document_id = run[p].doc_id
        /\ run[p].pc \in {"check", "commit", "done", "failed_chunks"} =>
              /\ HasText(run[p].pdf_bytes)
              /\ run[p].error # NoTextMessage

\* A scanned document has failed, and one with a page without text is ingested.
C4_Witness ==
    \E p, q \in Procs :
        /\ run[p].pc = "failed_text"
        /\ run[q].pc = "done" /\ run[q].pdf_bytes = "bytesA" /\ run[q].inserted > 0

\* ---------------------------------------------------------- search_chunks
\* schemas.py:37 and 61: top_k is validated to lie in 1..20.
TopKMax == 20
\* retrieval.py:26: chunk.text[:800]
HitTextMax == 800

\* pgvector's cosine_distance of two vectors of the common length: 1 - cos,
\* scaled by the squared length.
cosine_distance(u, v) == Dot(u, u) - Dot(u, v)

\* ORDER BY the distance, descending.
Nearest_Descending(rows, q) ==
    {r \in rows : \A o \in rows :
        cosine_distance(r[1].embedding, q) >= cosine_distance(o[1].embedding, q)}

\* retrieval.py:11: the rows ORDER BY puts first; rows at the same distance
\* come in an order SQL does not fix.
Nearest(rows, q) ==
    {r \in rows : \A o \in rows :
        cosine_distance(r[1].embedding, q) <= cosine_distance(o[1].embedding, q)}

\* retrieval.py:11-12: ORDER BY ... LIMIT k, every order the store may give.
RECURSIVE OrderByLimit(_, _, _)
OrderByLimit(rows, q, k) ==
    IF k = 0 \/ rows = {} THEN {<<>>}
    ELSE UNION {{<<r>> \o t : t \in OrderByLimit(rows \ {r}, q, k - 1)} : r \in Nearest(rows, q)}

\* retrieval.py:18-28: the hit made of a (chunk, doc) row.
HitOf(chunk, doc) ==
    [doc_name |-> doc.name, doc_version |-> doc.version_hash,
     page |-> chunk.page_number, para_id |-> chunk.para_id,
     bbox |-> [x1 |-> chunk.x1, y1 |-> chunk.y1, x2 |-> chunk.x2, y2 |-> chunk.y2],
     text |-> Slice(chunk.text, HitTextMax)]

\* retrieval.py:7-30: the lists of hits search_chunks may return.
search_chunks(query_embedding, top_k) ==
    LET joined == {<<c, d>> \in chunks \X documents : c.document_id = d.id}
        results == OrderByLimit(joined, query_embedding, top_k)
    IN  {[j \in 1..Len(r) |-> HitOf(r[j][1], r[j][2])] : r \in results}

\* Chunk texts in the store: two lines; a boilerplate line, then a line with
\* a stretch of blanks in it; a text longer than 800 characters; a short line.
TxtTwoLines ==
    <<Run("premium", 70, 58, FALSE, FALSE, FALSE), NL, Run("cancel", 45, 38, TRUE, FALSE, FALSE)>>
TxtNotice ==
    <<Run("notice", 40, 34, TRUE, FALSE, TRUE), NL,
      Run("refund", 35, 29, FALSE, FALSE, FALSE), WS(3), Run("terms", 30, 25, FALSE, FALSE, FALSE)>>
TxtLong ==
    <<Run("schedule", 500, 400, FALSE, FALSE, FALSE), NL, Run("annex", 400, 320, FALSE, FALSE, FALSE)>>
TxtShort == <<Run("see above", 9, 8, FALSE, FALSE, FALSE)>>

StoredTexts == <<TxtTwoLines, TxtNotice, TxtLong, TxtShort>>

\* The Document rows of the store the API reads.
StoredDocuments ==
    {[id |-> 1, name |-> "policy", version_hash |-> sha256_bytes("bytesA"),
      file_path |-> "docs/policy.pdf"],
     [id |-> 2, name |-> "claims", version_hash |-> sha256_bytes("bytesA"),
      file_path |-> "docs/policy.pdf"]}

\* The j-th Chunk row of that store, with the embedding it was stored with.
StoredChunk(j, emb) ==
    [id |-> j, document_id |-> 1 + (j % 2), page_number |-> 1 + (j \div 2),
     para_id |-> ParaId(1 + (j \div 2), 0),
     x1 |-> 72, y1 |-> 40 * j, x2 |-> 472, y2 |-> 40 * j + 8,
     text |-> StoredTexts[1 + ((j - 1) % Len(StoredTexts))], embedding |-> emb]

\* The stored embeddings and the query embeddings tried.
StoredVecs == {<<25, 0>>, <<24, 7>>, <<7, 24>>, <<-25, 0>>}

\* A store: each of the MaxStored rows is absent (<<>>) or has an embedding.
ChunksOf(slots) == {StoredChunk(j, slots[j]) : j \in {l \in DOMAIN slots : slots[l] # <<>>}}

InitSearch ==
    /\ page = <<>>
    /\ groups = <<>>
    /\ grouped = FALSE
    /\ documents = StoredDocuments
    /\ \E slots \in [1..MaxStored -> StoredVecs \cup {<<>>}] : chunks = ChunksOf(slots)
    /\ run = [p \in Procs |-> IdleRun]
    /\ started = 0
    /\ encoder = <<>>
    /\ retrieval = NoRetrieval
    /\ dedup = NoDedup
    /\ resp = NoRequest

\* A call search_chunks(db, query_embedding, top_k) (main.py:264, 293).  A
\* call reads the store and nothing else, so one call per behaviour, from
\* every store, covers every call.
Search(query_embedding, top_k) ==
    /\ ~retrieval.called
    /\ \E hits \in search_chunks(query_embedding, top_k) :
          retrieval' = [called |-> TRUE, query_embedding |-> query_embedding,
                        top_k |-> top_k, hits |-> hits]
    /\ UNCHANGED <<documents, chunks, run, started, groupVars, encoder, dedup, resp>>

NextSearch == \E q \in Vecs, k \in 1..TopKMax : Search(q, k)

SpecSearch == InitSearch /\ [][NextSearch]_vars

\* The Chunk row a hit was made of.
ChunkOfHit(h) ==
    CHOOSE c \in chunks :
        /\ c.page_number = h.page /\ c.para_id = h.para_id
        /\ \E d \in documents :
              d.id = c.document_id /\ d.name = h.doc_name /\ d.version_hash = h.doc_version

HitDistance(h, q) == cosine_distance(ChunkOfHit(h).embedding, q)

\* C8: search_chunks returns hits in non-decreasing cosine distance to the
\* query, at most top_k of them and at most as many as there are chunks, an
\* empty list when the store has no chunks, and leaves the store unchanged.
C8_SearchSortedBounded ==
    [][retrieval'.called =>
          LET hits == retrieval'.hits
              q == retrieval'.query_embedding
          IN  /\ \A j \in 1..(Len(hits) - 1) :
                    HitDistance(hits[j], q) <= HitDistance(hits[j + 1], q)
              /\ Len(hits) <= retrieval'.top_k
              /\ Len(hits) <= Cardinality(chunks)
              /\ chunks = {} => hits = <<>>
              /\ \A j \in 1..Len(hits) :
                    \E c \in chunks : hits[j] = HitOf(c, CHOOSE d \in documents : d.id = c.document_id)
              /\ chunks' = chunks /\ documents' = documents]_vars

\* A search that had to order the chunks and to cut the list: three chunks at
\* three distances, two hits asked for.
C8_Witness ==
    /\ retrieval.called
    /\ Cardinality(chunks) = 3
    /\ retrieval.top_k = 2
    /\ Len(retrieval.hits) = 2
    /\ HitDistance(retrieval.hits[1], retrieval.query_embedding)
           < HitDistance(retrieval.hits[2], retrieval.query_embedding)
    /\ \E c \in chunks :
          cosine_distance(c.embedding, retrieval.query_embedding)
              > HitDistance(retrieval.hits[2], retrieval.query_embedding)

\* -------------------------------------------------------- _cluster_semantic
\* main.py:193 and 339: thr = 0.82, in hundredths.
ThrPercent == 82

\* main.py:215: float(cos_sim(embs[i], embs[j])) >= thr, for two embeddings
\* of the common length.
Similar(u, v) == 100 * Dot(u, v) >= ThrPercent * Dot(u, u)

\* The last member of the cluster kept in place of its first.
Representative_Last(pairs, i, members) ==
    pairs[CHOOSE m \in members : \A o \in members : o <= m]

\* main.py:218: reps.append(pairs[i])
Representative(pairs, i, members) == pairs[i]

\* main.py:207-218: the passes of the outer loop from index i on; used is
\* the set of indices j with used[j] = True.
RECURSIVE ClusterFrom(_, _, _, _)
ClusterFrom(pairs, embs, i, used) ==
    IF i > Len(pairs) THEN <<>>
    ELSE IF i \in used THEN ClusterFrom(pairs, embs, i + 1, used)
         ELSE LET members == {i} \cup {j \in (i + 1)..Len(pairs) :
                                        j \notin used /\ Similar(embs[i], embs[j])}
              IN  <<Representative(pairs, i, members)>>
                      \o ClusterFrom(pairs, embs, i + 1, used \cup members)

\* main.py:193-220.  A pair is <<line, bullet>>.
cluster_semantic(pairs) ==
    IF pairs = <<>> THEN <<>>
    ELSE LET texts == [j \in 1..Len(pairs) |-> pairs[j][1]]
         IN  ClusterFrom(pairs, encode(texts), 1, {})

\* Lines, as _split_lines leaves them, and the bullets they come with.
LinePremium == <<Run("premium", 70, 58, FALSE, FALSE, FALSE)>>
LineCancel == <<Run("cancel", 45, 38, FALSE, FALSE, FALSE)>>
LineRefund ==
    <<Run("refund", 35, 29, FALSE, FALSE, FALSE), SP, Run("terms", 30, 25, FALSE, FALSE, FALSE)>>
LineSchedule == <<Run("schedule", 500, 400, FALSE, FALSE, FALSE)>>

ClusterLines == {LinePremium, LineCancel, LineRefund, LineSchedule}

\* An AnswerBullet (schemas.py:47-54) for a chunk of the store above; the two
\* URLs are those of _build_provenance_urls for the same four values.
BulletOf(doc_name, page_number, text) ==
    [text |-> text, doc_name |-> doc_name, doc_version |-> sha256_bytes("bytesA"),
     page |-> page_number, para_id |-> ParaId(page_number, 0),
     page_url |-> <<"/source/page", doc_name, sha256_bytes("bytesA"), page_number>>,
     highlight_url |-> <<"/source/highlight", doc_name, sha256_bytes("bytesA"),
                         page_number, ParaId(page_number, 0)>>]

ClusterPairs ==
    {<<LinePremium, BulletOf("policy", 1, LinePremium \o <<SP>> \o LineCancel)>>,
     <<LineCancel, BulletOf("policy", 1, LinePremium \o <<SP>> \o LineCancel)>>,
     <<LineRefund, BulletOf("claims", 2, LineRefund)>>,
     <<LineSchedule, BulletOf("claims", 3, LineSchedule)>>,
     <<LinePremium, BulletOf("claims", 2, LinePremium)>>}

\* The embeddings the model may give the lines.
ClusterVecs == {<<25, 0>>, <<24, 7>>, <<20, 15>>}

InitCluster ==
    /\ page = <<>>
    /\ groups = <<>>
    /\ grouped = FALSE
    /\ documents = {}
    /\ chunks = {}
    /\ run = [p \in Procs |-> IdleRun]
    /\ started = 0
    /\ encoder \in [ClusterLines -> ClusterVecs]
    /\ retrieval = NoRetrieval
    /\ \E n \in 0..MaxPairs : \E pairs \in [1..n -> ClusterPairs] :
          dedup = [stage |-> 0, pairs |-> pairs, reps |-> <<>>, again |-> <<>>]
    /\ resp = NoRequest

\* reps = _cluster_semantic(pairs, model, thr=0.82)
Cluster ==
    /\ dedup.stage = 0
    /\ dedup' = [dedup EXCEPT !.stage = 1, !.reps = cluster_semantic(dedup.pairs)]
    /\ UNCHANGED <<documents, chunks, run, started, groupVars, encoder, retrieval, resp>>

\* _cluster_semantic(reps, model, thr=0.82): the stage run on its own output.
ClusterAgain ==
    /\ dedup.stage = 1
    /\ dedup' = [dedup EXCEPT !.stage = 2, !.again = cluster_semantic(dedup.reps)]
    /\ UNCHANGED <<documents, chunks, run, started, groupVars, encoder, retrieval, resp>>

NextCluster == Cluster \/ ClusterAgain

SpecCluster == InitCluster /\ [][NextCluster]_vars

\* s is t with some items left out, the others in their order.
RECURSIVE IsSubsequence(_, _)
IsSubsequence(s, t) ==
    IF s = <<>> THEN TRUE
    ELSE IF t = <<>> THEN FALSE
         ELSE IF Head(s) = Head(t) THEN IsSubsequence(Tail(s), Tail(t))
              ELSE IsSubsequence(s, Tail(t))

\* C9: _cluster_semantic at threshold 0.82 applied to its own output returns
\* it unchanged, same items in the same order; the representatives are items
\* of the input in their original order, the first item among them, and no
\* representative is similar (>= 0.82) to an earlier one.
C9_ClusterIdempotent ==
    /\ dedup.stage >= 1 =>
          /\ IsSubsequence(dedup.reps, dedup.pairs)
          /\ dedup.pairs # <<>> => dedup.reps # <<>> /\ dedup.reps[1] = dedup.pairs[1]
          /\ \A a, b \in 1..Len(dedup.reps) :
                a < b => ~Similar(encoder[dedup.reps[a][1]], encoder[dedup.reps[b][1]])
    /\ dedup.stage = 2 => dedup.again = dedup.reps

\* Three lines, the second like the first and like the third, the third not
\* like the first: the second is dropped, the other two stay, twice over.
C9_Witness ==
    /\ dedup.stage = 2
    /\ Len(dedup.pairs) = 3
    /\ Similar(encoder[dedup.pairs[1][1]], encoder[dedup.pairs[2][1]])
    /\ Similar(encoder[dedup.pairs[2][1]], encoder[dedup.pairs[3][1]])
    /\ ~Similar(encoder[dedup.pairs[1][1]], encoder[dedup.pairs[3][1]])
    /\ dedup.reps = <<dedup.pairs[1], dedup.pairs[3]>>
    /\ dedup.again = dedup.reps

\* ------------------------------------------------------------------ answer
\* main.py:164: lines shorter than this are dropped.
MinLineLen == 30
\* main.py:178-182: the length bands of the score.
BandLow == 60
BandHigh == 220
BandTop == 320
\* main.py:335: _pick_informative(lines, k=2)
PickK == 2
\* main.py:321: the bullet text is cut to 800 characters.
BulletTextMax == 800
\* main.py:348-349: the compact bullet text is cut to 240 characters.
CompactTextMax == 240
\* main.py:233: the summary is made of reps[:2].
SummaryReps == 2
\* schemas.py:62: max_bullets is validated to lie in 1..10.
MaxBulletsMax == 10

\* main.py:65-71.  fields is the dict as a list of <<key, value>>; a value is
\* a text, "" being the empty one (None is skipped like it).
RECURSIVE QueryParts(_)
QueryParts(fields) ==
    IF fields = <<>> THEN <<>>
    ELSE IF Head(fields)[2] = <<>> THEN QueryParts(Tail(fields))
         ELSE <<Head(fields)[1] \o <<Lit(": ", 2)>> \o Head(fields)[2]>>
                  \o QueryParts(Tail(fields))

RECURSIVE JoinParts(_, _)
JoinParts(parts, sep) ==
    IF parts = <<>> THEN <<>>
    ELSE IF Len(parts) = 1 THEN parts[1]
         ELSE parts[1] \o sep \o JoinParts(Tail(parts), sep)

build_query(fields) ==
    LET parts == QueryParts(fields)
    IN  IF parts # <<>> THEN JoinParts(parts, <<Lit(" | ", 3)>>)
        ELSE <<Run("general policy guidance", 23, 21, FALSE, FALSE, FALSE)>>

\* main.py:135-142: the two URLs, each the endpoint and its query string.
build_provenance_urls(doc_name, doc_version, page_number, para_id) ==
    [page_url |-> <<"/source/page", doc_name, doc_version, page_number>>,
     highlight_url |-> <<"/source/highlight", doc_name, doc_version, page_number, para_id>>]

\* main.py:167: the line matches one of the _BOILERPLATE_PATTERNS.
IsBoilerplate(low) == \E j \in 1..Len(low) : low[j].boiler

\* The lower-cased copy appended in place of the line.
KeptLine_Lowered(ln, low) == low

\* main.py:169: lines.append(ln)
KeptLine(ln, low) == ln

\* main.py:162-169 for the pieces of the split.
RECURSIVE FilterLines(_)
FilterLines(raw) ==
    IF raw = <<>> THEN <<>>
    ELSE LET ln == Collapse(Head(raw))
             low == Lower(ln)
         IN  IF StrLen(ln) < MinLineLen \/ IsBoilerplate(low) THEN FilterLines(Tail(raw))
             ELSE <<KeptLine(ln, low)>> \o FilterLines(Tail(raw))

\* main.py:159-170
split_lines(text) == FilterLines(SplitBreaks(text, <<>>))

\* main.py:176-187
LineScore(ln) ==
    LET L == StrLen(ln)
        band == IF BandLow <= L /\ L <= BandHigh THEN 3
                ELSE IF MinLineLen <= L /\ L < BandLow THEN 2
                ELSE IF BandHigh < L /\ L <= BandTop THEN 2
                ELSE 1
    IN  IF IsUpper(ln) THEN band - 1 ELSE band

\* main.py:189-190: the stable sort by falling score, then [:k]: the first
\* line of the highest score, then the same on the lines left.
RECURSIVE TakeBest(_, _)
TakeBest(lines, k) ==
    IF k = 0 \/ lines = <<>> THEN <<>>
    ELSE LET best == CHOOSE j \in 1..Len(lines) :
                        /\ \A l \in 1..Len(lines) : LineScore(lines[l]) <= LineScore(lines[j])
                        /\ \A l \in 1..(j - 1) : LineScore(lines[l]) < LineScore(lines[j])
         IN  <<lines[best]>>
                 \o TakeBest(SubSeq(lines, 1, best - 1) \o SubSeq(lines, best + 1, Len(lines)),
                             k - 1)

\* main.py:173-190
pick_informative(lines, k) == TakeBest(lines, k)

\* main.py:234: f"{sent} (p.{b.page}, {b.para_id})"
SummaryEntry(sent, b) ==
    sent \o <<Lit(" (p.", 4), Lit(b.page, 1), Lit(", ", 2), Lit(b.para_id, 9), Lit(")", 1)>>

\* main.py:241: f"{idx}. {sent} (Source: {b.doc_name} p.{b.page}, {b.para_id})"
GuidanceEntry(idx, sent, b) ==
    <<Lit(idx, 1), Lit(". ", 2)>> \o sent
        \o <<Lit(" (Source: ", 10), Lit(b.doc_name, 6), Lit(" p.", 3), Lit(b.page, 1),
             Lit(", ", 2), Lit(b.para_id, 9), Lit(")", 1)>>

\* main.py:223-249
compose_agent_answer(query_text, reps) ==
    IF reps = <<>>
    THEN <<Lit("No relevant clauses found for this case context.", 48)>>
    ELSE LET top == SubSeq(reps, 1, Min(SummaryReps, Len(reps)))
             summary == JoinParts([j \in 1..Len(top) |-> SummaryEntry(top[j][1], top[j][2])],
                                  <<SP>>)
             guidance == JoinParts([j \in 1..Len(reps) |->
                                       GuidanceEntry(j, reps[j][1], reps[j][2])], <<NL>>)
         IN  <<Lit("Case context: ", 14)>> \o query_text
                 \o <<Lit("\n\nSummary (grounded):\n", 22)>> \o summary
                 \o <<Lit("\n\nCited guidance:\n", 18)>> \o guidance

\* main.py:306-308: a hit without one of its provenance values.
MissingProvenance(d) ==
    d.doc_name = "" \/ d.doc_version = <<>> \/ d.page = 0 \/ d.para_id = <<>>

\* main.py:311: the hit with its two URLs.
SourceOf(h) == h @@ build_provenance_urls(h.doc_name, h.doc_version, h.page, h.para_id)

\* The bullet with the page counted from 0, as fitz counts.
AnswerBulletOf_PageIndex(d) ==
    [text |-> Slice(Collapse(d.text), BulletTextMax), doc_name |-> d.doc_name,
     doc_version |-> d.doc_version, page |-> d.page - 1, para_id |-> d.para_id,
     page_url |-> d.page_url, highlight_url |-> d.highlight_url]

\* main.py:319-329
AnswerBulletOf(d) ==
    [text |-> Slice(Collapse(d.text), BulletTextMax), doc_name |-> d.doc_name,
     doc_version |-> d.doc_version, page |-> d.page, para_id |-> d.para_id,
     page_url |-> d.page_url, highlight_url |-> d.highlight_url]

\* main.py:333-336 for one bullet
CandidatesOf(b) ==
    LET picked == pick_informative(split_lines(b.text), PickK)
    IN  [j \in 1..Len(picked) |-> <<picked[j], b>>]

RECURSIVE Flatten(_)
Flatten(ss) == IF ss = <<>> THEN <<>> ELSE Head(ss) \o Flatten(Tail(ss))

\* main.py:346-349
CompactText(b) ==
    LET t == Collapse(b.text)
    IN  IF StrLen(t) > CompactTextMax
        THEN RStrip(Slice(t, CompactTextMax)) \o <<Lit("...", 1)>>
        ELSE t

\* main.py:282-369 for the hits search_chunks returned.
AnswerFor(fields, top_k, max_bullets, hits) ==
    LET query_text == build_query(fields)
        request == [op |-> "answer", fields |-> fields, top_k |-> top_k,
                    max_bullets |-> max_bullets, hits |-> hits, db |-> "closed"]
    IN  IF hits = <<>>
        THEN request @@
             [status |-> 200, query_used |-> query_text,
              answer |-> <<Lit("No relevant clauses found for this case context.", 48)>>,
              bullets |-> <<>>, sources |-> <<>>, candidates |-> <<>>, reps |-> <<>>]
        ELSE IF \E j \in 1..Len(hits) : MissingProvenance(hits[j])
        THEN request @@
             [status |-> 500, query_used |-> query_text, answer |-> <<>>,
              bullets |-> <<>>, sources |-> <<>>, candidates |-> <<>>, reps |-> <<>>]
        ELSE LET sources == [j \in 1..Len(hits) |-> SourceOf(hits[j])]
                 max_b == Min(max_bullets, Len(sources))
                 bullets == [j \in 1..max_b |-> AnswerBulletOf(sources[j])]
                 candidates == Flatten([j \in 1..max_b |-> CandidatesOf(bullets[j])])
                 reps == cluster_semantic(candidates)
             IN  request @@
                 [status |-> 200, query_used |-> query_text,
                  answer |-> compose_agent_answer(query_text, reps),
                  bullets |-> [j \in 1..max_b |->
                                  [bullets[j] EXCEPT !.text = CompactText(bullets[j])]],
                  sources |-> sources, candidates |-> candidates, reps |-> reps]

\* The field values of a request: none, one field, two fields one of them empty.
FieldChoices ==
    {<<>>,
     << <<<<Run("claim_type", 10, 9, FALSE, FALSE, FALSE)>>,
          <<Run("water damage", 12, 11, FALSE, FALSE, FALSE)>>>> >>,
     << <<<<Run("claim_type", 10, 9, FALSE, FALSE, FALSE)>>, <<>>>>,
        <<<<Run("region", 6, 6, FALSE, FALSE, FALSE)>>,
          <<Run("EU", 2, 2, TRUE, FALSE, FALSE)>>>> >>}

\* Every text the model is asked to embed for this store and these requests.
AnswerTexts ==
    {build_query(f) : f \in FieldChoices}
        \cup {StoredTexts[j] : j \in 1..Len(StoredTexts)}
        \cup UNION {{l[j] : j \in 1..Len(l)} :
                l \in {split_lines(Slice(Collapse(Slice(StoredTexts[j], HitTextMax)),
                                         BulletTextMax)) : j \in 1..Len(StoredTexts)}}

\* Three models: one that maps every text to one vector; one that spreads
\* the texts, by their length, over directions far apart; one that keeps
\* them close.
\* Each is a function of the text, as a loaded model is.
AnswerEncoders ==
    {[t \in AnswerTexts |-> <<25, 0>>],
     [t \in AnswerTexts |->
         CASE StrLen(t) < 100 -> <<25, 0>> [] StrLen(t) < 110 -> <<-25, 0>>
           [] StrLen(t) < 200 -> <<7, 24>> [] OTHER -> <<24, 7>>],
     [t \in AnswerTexts |-> IF StrLen(t) % 2 = 0 THEN <<24, 7>> ELSE <<20, 15>>]}

InitAnswer ==
    /\ page = <<>>
    /\ groups = <<>>
    /\ grouped = FALSE
    /\ documents = StoredDocuments
    /\ encoder \in AnswerEncoders
    /\ \E present \in SUBSET (1..MaxStored) :
          chunks = {StoredChunk(j, encoder[StoredTexts[1 + ((j - 1) % Len(StoredTexts))]]) :
                        j \in present}
    /\ run = [p \in Procs |-> IdleRun]
    /\ started = 0
    /\ retrieval = NoRetrieval
    /\ dedup = NoDedup
    /\ resp = NoRequest

\* POST /answer (main.py:282-369).  The handler reads the store and the
\* model and nothing else, so one request per behaviour covers every request.
Answer(fields, top_k, max_bullets) ==
    /\ resp.op = "none"
    /\ \E hits \in search_chunks(encode(<<build_query(fields)>>)[1], top_k) :
          resp' = AnswerFor(fields, top_k, max_bullets, hits)
    /\ UNCHANGED <<documents, chunks, run, started, groupVars, encoder, retrieval, dedup>>

NextAnswer ==
    \E fields \in FieldChoices, top_k \in 1..TopKMax, max_bullets \in 1..MaxBulletsMax :
        Answer(fields, top_k, max_bullets)

SpecAnswer == InitAnswer /\ [][NextAnswer]_vars

\* The text of a string without its whitespace.
RECURSIVE Words(_)
Words(s) ==
    IF s = <<>> THEN <<>>
    ELSE IF IsSpace(Head(s)) THEN Words(Tail(s)) ELSE <<Head(s)>> \o Words(Tail(s))

IsInfix(s, t) ==
    \E a \in 0..(Len(t) - Len(s)) : \A j \in 1..Len(s) : t[a + j] = s[j]

HitTexts == Flatten([j \in 1..Len(resp.hits) |-> resp.hits[j].text])

Answered == resp.op = "answer" /\ resp.status = 200

\* C10 as stated: the composed answer is, as a whole, a stretch of the
\* retrieved hit texts put one after the other.
C10_AnswerWithinHitTexts == Answered => IsInfix(resp.answer, HitTexts)

\* C10: whatever the answer holds besides the fixed wording of the template,
\* the citation labels, blanks and the query string is a piece of a retrieved
\* hit's text or of the query string; and every line the answer cites is, word
\* for word and in order, an unbroken stretch of the words of the text of the
\* hit it is cited for, one of the first max_bullets hits.
C10_LinesAreHitTextRearranged ==
    Answered =>
        /\ \A j \in 1..Len(resp.answer) :
              resp.answer[j].k = "run" =>
                  \/ \E l \in 1..Len(resp.query_used) : resp.query_used[l] = resp.answer[j]
                  \/ \E l \in 1..Len(HitTexts) : HitTexts[l] = resp.answer[j]
        /\ \A r \in 1..Len(resp.reps) :
              /\ IsInfix(resp.reps[r][1], resp.answer)
              /\ \E h \in 1..Min(resp.max_bullets, Len(resp.hits)) :
                    /\ resp.hits[h].para_id = resp.reps[r][2].para_id
                    /\ resp.hits[h].doc_name = resp.reps[r][2].doc_name
                    /\ resp.hits[h].page = resp.reps[r][2].page
                    /\ Words(resp.reps[r][1]) # <<>>
                    /\ IsInfix(Words(resp.reps[r][1]), Words(resp.hits[h].text))

\* An answer of two cited lines, one of them with an upper-case word and a
\* blank where its hit's text has a line break.
C10_Witness ==
    /\ Answered
    /\ Len(resp.reps) >= 2
    /\ \E r \in 1..Len(resp.reps), h \in 1..Len(resp.hits) :
          /\ resp.hits[h].para_id = resp.reps[r][2].para_id
          /\ \E j \in 1..Len(resp.reps[r][1]) : resp.reps[r][1][j].upper /\ resp.reps[r][1][j].k = "run"
          /\ ~IsInfix(resp.reps[r][1], resp.hits[h].text)
          /\ IsInfix(Words(resp.reps[r][1]), Words(resp.hits[h].text))

\* ------------------------------------------------------------- provenance
\* main.py:28-30
RENDER_ZOOM == 2
HIGHLIGHT_PAD == 6
CROP_PAD == 60

\* db.py:7, SessionLocal(): a session of its own for the caller, open.
SessionLocal == "open"

\* The close left out when the body raised.
CloseSession_OnReturnOnly(db, status) == IF status = 200 THEN "closed" ELSE db

\* main.py:278-279, 368-369, 383-384, 434-435 and source.py:22-23: the
\* finally clause, db.close(), whatever status the body ended with.
CloseSession(db, status) == "closed"

\* fitz.open(path): the files that exist are those of Paths.
FileExists(path) == path \in Paths

\* The width and the height, in points, of a page of the file.
PageRect(bytes, page_number) ==
    IF bytes = "bytesB" THEN <<300, 200>> ELSE <<612, 792>>

\* main.py:77-85: the rows .first() can return; none is the 404.
resolve_document(doc_name, doc_version) ==
    LET named == {d \in documents : d.name = doc_name}
    IN  IF doc_version # <<>>
        THEN {d \in named : d.version_hash = doc_version}
        ELSE {d \in named : \A e \in named : e.id <= d.id}

\* main.py:88-99: the status and the image.  fitz.open raises on a path that
\* is no file, which the handler does not catch (500).
render_page_image(pdf_path, page_number) ==
    IF ~FileExists(pdf_path) THEN [status |-> 500, image |-> <<>>]
    ELSE LET pages == PdfPages(FileBytes(pdf_path))
             rect == PageRect(FileBytes(pdf_path), page_number)
         IN  IF page_number < 1 \/ page_number > Len(pages)
             THEN [status |-> 404, image |-> <<>>]
             ELSE [status |-> 200,
                   image |-> [width |-> rect[1] * RENDER_ZOOM,
                              height |-> rect[2] * RENDER_ZOOM,
                              of |-> <<pdf_path, page_number>>,
                              rectangle |-> <<>>, crop |-> <<>>]]

\* main.py:108-117.  The columns are integers (models.py:33-36), so int()
\* of the product with 2.0 is the product.
pdf_bbox_to_pixels(chunk) ==
    LET x1 == Min(chunk.x1, chunk.x2)
        x2 == Max(chunk.x1, chunk.x2)
        y1 == Min(chunk.y1, chunk.y2)
        y2 == Max(chunk.y1, chunk.y2)
    IN  <<x1 * RENDER_ZOOM, y1 * RENDER_ZOOM, x2 * RENDER_ZOOM, y2 * RENDER_ZOOM>>

\* main.py:415-418
HighlightBox(s, img) ==
    <<Max(0, s[1] - HIGHLIGHT_PAD), Max(0, s[2] - HIGHLIGHT_PAD),
      Min(img.width - 1, s[3] + HIGHLIGHT_PAD), Min(img.height - 1, s[4] + HIGHLIGHT_PAD)>>

\* main.py:427-430
CropBox(r, img) ==
    <<Max(0, r[1] - CROP_PAD), Max(0, r[2] - CROP_PAD),
      Min(img.width - 1, r[3] + CROP_PAD), Min(img.height - 1, r[4] + CROP_PAD)>>

\* Query(..., ge=1) on page (main.py:376, 391): a request with a smaller
\* page is answered 422 before the handler is entered.
PageAccepted(page_number) == page_number >= 1

\* main.py:372-384
SourcePageFor(doc_name, doc_version, page_number) ==
    LET request == [op |-> "source_page", doc_name |-> doc_name,
                    doc_version |-> doc_version, page |-> page_number]
        found == resolve_document(doc_name, doc_version)
    IN  IF ~PageAccepted(page_number)
        THEN {request @@ [status |-> 422, image |-> <<>>, db |-> "none"]}
        ELSE IF found = {}
        THEN {request @@ [status |-> 404, image |-> <<>>,
                          db |-> CloseSession(SessionLocal, 404)]}
        ELSE {LET out == render_page_image(doc.file_path, page_number)
              IN  request @@ [status |-> out.status, image |-> out.image,
                              db |-> CloseSession(SessionLocal, out.status)] :
                  doc \in found}

\* main.py:387-435
SourceHighlightFor(doc_name, doc_version, page_number, para_id, crop) ==
    LET request == [op |-> "source_highlight", doc_name |-> doc_name,
                    doc_version |-> doc_version, page |-> page_number,
                    para_id |-> para_id, crop |-> crop]
        found == resolve_document(doc_name, doc_version)
        ChunksFor(doc) == {c \in chunks : /\ c.document_id = doc.id
                                          /\ c.page_number = page_number
                                          /\ c.para_id = para_id}
        Drawn(chunk, img) ==
            LET r == HighlightBox(pdf_bbox_to_pixels(chunk), img)
            IN  [img EXCEPT !.rectangle = r,
                            !.crop = IF crop THEN CropBox(r, img) ELSE <<>>]
    IN  IF ~PageAccepted(page_number)
        THEN {request @@ [status |-> 422, image |-> <<>>, db |-> "none"]}
        ELSE IF found = {}
        THEN {request @@ [status |-> 404, image |-> <<>>,
                          db |-> CloseSession(SessionLocal, 404)]}
        ELSE UNION {
               IF ChunksFor(doc) = {}
               THEN {request @@ [status |-> 404, image |-> <<>>,
                                 db |-> CloseSession(SessionLocal, 404)]}
               ELSE {LET out == render_page_image(doc.file_path, page_number)
                     IN  request @@
                         [status |-> out.status,
                          image |-> IF out.status = 200 THEN Drawn(chunk, out.image)
                                    ELSE <<>>,
                          db |-> CloseSession(SessionLocal, out.status)] :
                         chunk \in ChunksFor(doc)} :
               doc \in found}

\* source.py:6-23.  The file opened is docs/<doc_name>.pdf, whatever the
\* row's file_path; a page out of range is answered 400.
RenderPagePngFor(doc_name, doc_version, page_number) ==
    LET request == [op |-> "render_page_png", doc_name |-> doc_name,
                    doc_version |-> doc_version, page |-> page_number]
        found == {d \in documents : d.name = doc_name /\ d.version_hash = doc_version}
        pdf_path == CASE doc_name = "policy" -> "docs/policy.pdf"
                      [] doc_name = "claims" -> "docs/claims.pdf"
                      [] OTHER -> "docs/unknown.pdf"
    IN  IF found = {}
        THEN {request @@ [status |-> 404, image |-> <<>>,
                          db |-> CloseSession(SessionLocal, 404)]}
        ELSE IF ~FileExists(pdf_path)
        THEN {request @@ [status |-> 500, image |-> <<>>,
                          db |-> CloseSession(SessionLocal, 500)]}
        ELSE IF page_number < 1 \/ page_number > Len(PdfPages(FileBytes(pdf_path)))
        THEN {request @@ [status |-> 400, image |-> <<>>,
                          db |-> CloseSession(SessionLocal, 400)]}
        ELSE {request @@
              [status |-> 200,
               image |-> [of |-> <<pdf_path, page_number>>, rectangle |-> <<>>,
                          crop |-> <<>>],
               db |-> CloseSession(SessionLocal, 200)]}

\* The largest page number asked for; the files have 1, 2 and 3 pages.
MaxPage == 4

\* The Document rows the provenance endpoints read: two versions of
\* "policy", and "claims", whose file has been moved away since.
SourceDocuments ==
    {[id |-> 1, name |-> "policy", version_hash |-> sha256_bytes("bytesA"),
      file_path |-> "docs/policy.pdf"],
     [id |-> 2, name |-> "policy", version_hash |-> sha256_bytes("bytesB"),
      file_path |-> "docs/policy_v2.pdf"],
     [id |-> 3, name |-> "claims", version_hash |-> sha256_bytes("bytesA"),
      file_path |-> "docs/moved.pdf"]}

\* Stored boxes <<x1, y1, x2, y2>>: inside the page, the same with its
\* corners swapped, at the top left corner, reaching the bottom right corner,
\* right of the page, and left of and above the page.
BBoxes ==
    {<<100, 200, 300, 250>>, <<300, 250, 100, 200>>, <<2, 1, 40, 10>>,
     <<500, 700, 612, 792>>, <<700, 100, 760, 120>>, <<-40, -30, -10, -5>>}

\* The j-th Chunk row of that store, with the box it was stored with.
SourceChunk(j, box) ==
    LET document_id == CASE j % 4 = 1 -> 1 [] j % 4 = 2 -> 2 [] j % 4 = 3 -> 1 [] OTHER -> 3
        page_number == IF j % 4 = 3 THEN 3 ELSE 1
    IN  [id |-> j, document_id |-> document_id, page_number |-> page_number,
         para_id |-> ParaId(page_number, (j - 1) \div 4),
         x1 |-> box[1], y1 |-> box[2], x2 |-> box[3], y2 |-> box[4],
         text |-> TxtShort, embedding |-> <<25, 0>>]

\* What a provenance request can name.
SourceNames == {"policy", "claims", "missing"}
SourceVersions == {<<>>, sha256_bytes("bytesA"), sha256_bytes("bytesB")}
SourceParaIds == {ParaId(1, 0), ParaId(3, 0)}

InitSource ==
    /\ page = <<>>
    /\ groups = <<>>
    /\ grouped = FALSE
    /\ documents = SourceDocuments
    /\ \E slots \in [1..MaxStored -> BBoxes \cup {<<>>}] :
          chunks = {SourceChunk(j, slots[j]) : j \in {l \in 1..MaxStored : slots[l] # <<>>}}
    /\ encoder = <<>>
    /\ run = [p \in Procs |-> IdleRun]
    /\ started = 0
    /\ retrieval = NoRetrieval
    /\ dedup = NoDedup
    /\ resp = NoRequest

\* GET /source/page (main.py:372-384).  The handlers read the store and the
\* files and change neither, so one request per behaviour covers every request.
SourcePage(doc_name, doc_version, page_number) ==
    /\ resp.op = "none"
    /\ resp' \in SourcePageFor(doc_name, doc_version, page_number)
    /\ UNCHANGED <<documents, chunks, run, started, groupVars, encoder, retrieval, dedup>>

\* GET /source/highlight (main.py:387-435)
SourceHighlight(doc_name, doc_version, page_number, para_id, crop) ==
    /\ resp.op = "none"
    /\ resp' \in SourceHighlightFor(doc_name, doc_version, page_number, para_id, crop)
    /\ UNCHANGED <<documents, chunks, run, started, groupVars, encoder, retrieval, dedup>>

\* render_page_png (source.py:6-23); it has no None for the version.
RenderPagePng(doc_name, doc_version, page_number) ==
    /\ resp.op = "none"
    /\ resp' \in RenderPagePngFor(doc_name, doc_version, page_number)
    /\ UNCHANGED <<documents, chunks, run, started, groupVars, encoder, retrieval, dedup>>

NextSource ==
    \E doc_name \in SourceNames, doc_version \in SourceVersions, page_number \in 0..MaxPage :
        \/ SourcePage(doc_name, doc_version, page_number)
        \/ \E para_id \in SourceParaIds, crop \in BOOLEAN :
              SourceHighlight(doc_name, doc_version, page_number, para_id, crop)
        \/ RenderPagePng(doc_name, doc_version, page_number)

SpecSource == InitSource /\ [][NextSource]_vars

\* The provenance request answered, the rows it names and the file it reads.
ProvenanceAnswered == resp.op \in {"source_page", "source_highlight", "render_page_png"}

NamedDocuments ==
    {d \in documents : /\ d.name = resp.doc_name
                       /\ resp.doc_version # <<>> => d.version_hash = resp.doc_version
                       /\ resp.doc_version = <<>> =>
                              \A e \in documents : e.name = d.name => e.id <= d.id}

PageOutOfRange ==
    \/ resp.page < 1
    \/ \E d \in NamedDocuments :
          /\ d.file_path \in Paths
          /\ resp.page > Len(PdfPages(FileBytes(d.file_path)))

NamedChunks ==
    {c \in chunks : /\ \E d \in NamedDocuments : c.document_id = d.id
                    /\ c.page_number = resp.page
                    /\ c.para_id = resp.para_id}

\* C12: a provenance request for an unknown document, or for a page outside
\* 1..page_count, is answered not-found (404) with no image, whichever of
\* source_page, source_highlight and render_page_png serves it; and so is a
\* highlight request for which the store has no chunk.
C12_NotFoundAndNoImage ==
    ProvenanceAnswered =>
        /\ (NamedDocuments = {} \/ PageOutOfRange) =>
               resp.status = 404 /\ resp.image = <<>>
        /\ (resp.op = "source_highlight" /\ NamedChunks = {}) =>
               resp.status = 404 /\ resp.image = <<>>

\* render_page_png answers a page beyond the last one of a known document
\* whose file is there with 400, and source_page answers page 0 with 422.
C12_InvalidPageIsNot404 ==
    /\ resp.op = "render_page_png"
    /\ NamedDocuments # {}
    /\ resp.page > Len(PdfPages("bytesA"))
    /\ resp.status = 400

\* C13: the rectangle source_highlight draws for a stored box (x1, y1, x2,
\* y2) on an image W wide and H high is the box put in order, scaled by the
\* zoom, widened by the pad on each side and clamped, and it lies in the image:
\* 0 <= left <= right <= W - 1 and 0 <= top <= bottom <= H - 1.
C13_RectangleWithinImage ==
    (resp.op = "source_highlight" /\ resp.status = 200) =>
        \E c \in NamedChunks :
            LET r == resp.image.rectangle
                W == resp.image.width
                H == resp.image.height
            IN  /\ r[1] = Max(0, Min(c.x1, c.x2) * RENDER_ZOOM - HIGHLIGHT_PAD)
                /\ r[2] = Max(0, Min(c.y1, c.y2) * RENDER_ZOOM - HIGHLIGHT_PAD)
                /\ r[3] = Min(W - 1, Max(c.x1, c.x2) * RENDER_ZOOM + HIGHLIGHT_PAD)
                /\ r[4] = Min(H - 1, Max(c.y1, c.y2) * RENDER_ZOOM + HIGHLIGHT_PAD)
                /\ 0 <= r[1] /\ r[1] <= r[3] /\ r[3] <= W - 1
                /\ 0 <= r[2] /\ r[2] <= r[4] /\ r[4] <= H - 1

\* A highlight answered with an image whose rectangle starts right of the
\* image's last column, or ends left of its first one.
C13_RectangleOutsideImage ==
    /\ resp.op = "source_highlight"
    /\ resp.status = 200
    /\ \/ resp.image.rectangle[1] > resp.image.width - 1
       \/ resp.image.rectangle[3] < 0

\* ---------------------------------------------------------------- sessions
\* main.py:253-279 for the hits search_chunks returned.
SuggestFor(fields, top_k, hits) ==
    LET query_text == build_query(fields)
        request == [op |-> "suggest", fields |-> fields, top_k |-> top_k, hits |-> hits,
                    query_used |-> query_text]
    IN  IF \E j \in 1..Len(hits) : MissingProvenance(hits[j])
        THEN request @@ [status |-> 500, suggestions |-> <<>>,
                         db |-> CloseSession(SessionLocal, 500)]
        ELSE request @@ [status |-> 200,
                         suggestions |-> [j \in 1..Len(hits) |-> SourceOf(hits[j])],
                         db |-> CloseSession(SessionLocal, 200)]

\* POST /suggest (main.py:253-279)
Suggest(fields, top_k) ==
    /\ resp.op = "none"
    /\ \E hits \in search_chunks(encode(<<build_query(fields)>>)[1], top_k) :
          resp' = SuggestFor(fields, top_k, hits)
    /\ UNCHANGED <<documents, chunks, run, started, groupVars, encoder, retrieval, dedup>>

\* The command lines run while the API is serving: the policy file, a copy
\* of it and the scanned file, all under the name "policy".
SessionArgs ==
    {<<"docs/policy.pdf", "policy">>, <<"copy/policy.pdf", "policy">>,
     <<"docs/scan.pdf", "policy">>}

\* The document and page the provenance requests ask for meanwhile: a page
\* that is there, page 0, a page beyond the last, an unknown document.
SessionTargets ==
    {<<"policy", 1>>, <<"policy", 0>>, <<"policy", MaxPage>>, <<"missing", 1>>}

\* Every text the model is asked to embed by these runs and requests.
SessionTexts ==
    IngestTexts
        \cup {build_query(f) : f \in FieldChoices}
        \cup UNION {{l[j] : j \in 1..Len(l)} :
                l \in {split_lines(Slice(Collapse(Slice(t, HitTextMax)), BulletTextMax)) :
                          t \in IngestTexts}}

\* An empty store, no run and no request yet, the model loaded.
InitSessions ==
    /\ page = <<>>
    /\ groups = <<>>
    /\ grouped = FALSE
    /\ documents = {}
    /\ chunks = {}
    /\ run = [p \in Procs |-> IdleRun]
    /\ started = 0
    /\ encoder = [t \in SessionTexts |-> IF StrLen(t) > 100 THEN <<24, 7>> ELSE <<7, 24>>]
    /\ retrieval = NoRetrieval
    /\ dedup = NoDedup
    /\ resp = NoRequest

\* The ingest_pdf runs and, at any moment of them, one request to the API.
NextSessions ==
    \/ \E p \in Procs :
          \/ \E args \in SessionArgs : IngestStart(p, args[1], args[2])
          \/ IngestLookupDoc(p)
          \/ IngestInsertDoc(p)
          \/ IngestSyncPath(p)
          \/ IngestExtract(p)
          \/ IngestCheckChunk(p)
          \/ IngestCommitChunks(p)
    \/ \E fields \in FieldChoices :
          \/ Suggest(fields, TopKMax)
          \/ \E max_bullets \in {1, MaxBulletsMax} : Answer(fields, TopKMax, max_bullets)
    \/ \E target \in SessionTargets :
          \/ SourcePage(target[1], <<>>, target[2])
          \/ SourceHighlight(target[1], <<>>, target[2], ParaId(1, 0), FALSE)
          \/ RenderPagePng(target[1], sha256_bytes("bytesA"), target[2])

SpecSessions == InitSessions /\ [][NextSessions]_vars

Returned(p) == run[p].pc \in {"done", "failed_doc", "failed_text", "failed_chunks"}

\* C11: an ingest_pdf run has no session before it starts, an open one of
\* its own while it runs and a closed one once it has returned, however it
\* returned (done, IntegrityError, ValueError); a request that has been
\* answered by suggest, answer, source_page, source_highlight or
\* render_page_png has closed the session it opened, whatever its status, and
\* a request refused before the handler was entered never opened one.
C11_SessionClosedOnEveryExit ==
    /\ \A p \in Procs :
          /\ run[p].pc = "idle" => run[p].db = "none"
          /\ Returned(p) => run[p].db = "closed"
          /\ (run[p].pc # "idle" /\ ~Returned(p)) => run[p].db = "open"
    /\ resp.op # "none" =>
          /\ resp.db \in {"closed", "none"}
          /\ resp.db = "none" => resp.status = 422

\* One run ended on the IntegrityError and a request was answered not-found
\* or with an error, all of their sessions closed.
C11_Witness ==
    /\ \E p \in Procs : run[p].pc = "failed_doc" /\ run[p].db = "closed"
    /\ resp.op \in {"source_page", "source_highlight", "render_page_png"}
    /\ resp.status \in {400, 404, 500}
    /\ resp.db = "closed"

\* ------------------------------------------------------- answer, the lines
\* The number of hits the answer takes its lines from (main.py:315).
BulletCount == Min(resp.max_bullets, Len(resp.hits))

\* The bullet is the one made of hit h.
BulletOfHit(b, h) ==
    /\ b.doc_name = resp.hits[h].doc_name
    /\ b.doc_version = resp.hits[h].doc_version
    /\ b.page = resp.hits[h].page
    /\ b.para_id = resp.hits[h].para_id

CandidatesOfHit(h) ==
    {c \in 1..Len(resp.candidates) : BulletOfHit(resp.candidates[c][2], h)}

\* C14: each of the hits the answer uses contributes as many candidates as
\* it has lines that pass the filter one by one, its text being split at its
\* line breaks, up to 2; and these are lines of that split.
C14_LinesFilteredOneByOne ==
    Answered =>
        \A h \in 1..BulletCount :
            LET qualifying == split_lines(resp.hits[h].text)
            IN  /\ Cardinality(CandidatesOfHit(h)) = Min(PickK, Len(qualifying))
                /\ \A c \in CandidatesOfHit(h) :
                      \E l \in 1..Len(qualifying) : qualifying[l] = resp.candidates[c][1]

\* A hit of two lines that both pass the filter gave one candidate, the two
\* lines joined by a blank; or a hit of a boilerplate line and a line that
\* passes gave none.
C14_HitSplitIntoOneLine ==
    /\ Answered
    /\ \E h \in 1..BulletCount :
          LET qualifying == split_lines(resp.hits[h].text)
          IN  \/ /\ Len(qualifying) = 2
                 /\ Cardinality(CandidatesOfHit(h)) = 1
                 /\ \E c \in CandidatesOfHit(h) :
                       resp.candidates[c][1] = qualifying[1] \o <<SP>> \o qualifying[2]
              \/ /\ Len(qualifying) = 1
                 /\ CandidatesOfHit(h) = {}

\* Representative r is cited for hit h and its words are words of h's text.
CitesHit(r, h) ==
    /\ BulletOfHit(resp.reps[r][2], h)
    /\ Words(resp.reps[r][1]) # <<>>
    /\ IsInfix(Words(resp.reps[r][1]), Words(resp.hits[h].text))

\* C15: every representative is printed in the answer with the doc_name, page
\* and para_id of its bullet; that bullet is the one of a hit among the first
\* min(max_bullets, number of hits), the line is made of that hit's text, and
\* the representatives follow one another in the order of their hits.
C15_CitedLineFromCitedHit ==
    Answered =>
        /\ \A r \in 1..Len(resp.reps) :
              /\ IsInfix(GuidanceEntry(r, resp.reps[r][1], resp.reps[r][2]), resp.answer)
              /\ \E h \in 1..BulletCount : CitesHit(r, h)
              /\ \A h \in 1..Len(resp.hits) :
                    BulletOfHit(resp.reps[r][2], h) => h <= BulletCount /\ CitesHit(r, h)
        /\ \A r1, r2 \in 1..Len(resp.reps) :
              r1 < r2 => \E h1, h2 \in 1..BulletCount :
                            h1 <= h2 /\ CitesHit(r1, h1) /\ CitesHit(r2, h2)

\* Two cited lines from two hits, a third hit left out by max_bullets.
C15_Witness ==
    /\ Answered
    /\ Len(resp.reps) >= 2
    /\ BulletCount < Len(resp.hits)
    /\ \E h1, h2 \in 1..BulletCount : h1 < h2 /\ CitesHit(1, h1) /\ CitesHit(2, h2)

====
